---- MODULE Spec2Model ----
(***************************************************************************)
(* Model of src/main.py: class TuringMachine, a single-tape deterministic  *)
(* Turing machine simulator (constructor, initialize_tape, step, run).     *)
(*                                                                         *)
(* The head position is the 0-based Python list index; the tape is a TLA+  *)
(* sequence, so the cell at Python index i is tape[i + 1].                 *)
(***************************************************************************)
EXTENDS Integers, Sequences, FiniteSets, TLC

----------------------------------------------------------------------------
(* Bounds of the model *)

\* longest input string over {0, 1} handed to run / initialize_tape
MaxLen == 3

\* a step is taken only while the tape it produces has at most MaxTape cells
MaxTape == 6

\* the run loop counts at most MaxSteps steps
MaxSteps == 10

----------------------------------------------------------------------------
(* Descriptions: the constructor arguments *)

States == {"q0", "q1", "q2"}

TapeSymbols == {"0", "1", "_"}

\* the example machine of the specification (bit flip)
BitFlipRules ==
    (<<"q0", "0">> :> <<"q0", "1", "R">>) @@
    (<<"q0", "1">> :> <<"q0", "0", "R">>) @@
    (<<"q0", "_">> :> <<"q1", "_", "L">>) @@
    (<<"q1", "0">> :> <<"q1", "0", "L">>) @@
    (<<"q1", "1">> :> <<"q1", "1", "L">>) @@
    (<<"q1", "_">> :> <<"q2", "_", "R">>)

\* a single rule that walks right over blanks for ever
LoopRules ==
    (<<"q0", "_">> :> <<"q0", "_", "R">>)

\* a machine that writes while walking left and bounces back
ZigZagRules ==
    (<<"q0", "0">> :> <<"q1", "1", "L">>) @@
    (<<"q0", "1">> :> <<"q1", "0", "L">>) @@
    (<<"q0", "_">> :> <<"q1", "1", "L">>) @@
    (<<"q1", "_">> :> <<"q2", "0", "L">>) @@
    (<<"q1", "1">> :> <<"q2", "_", "R">>) @@
    (<<"q2", "_">> :> <<"q0", "_", "R">>) @@
    (<<"q2", "0">> :> <<"q0", "1", "R">>)

Tables == {BitFlipRules, LoopRules, ZigZagRules}

\* every argument tuple the constructor is called with in this model
Descriptions ==
    { [states |-> States, tape_symbols |-> TapeSymbols, blank |-> "_",
       initial_state |-> i, final_states |-> f, transitions |-> t] :
         i \in States, f \in SUBSET States, t \in Tables }

BitFlip ==
    [states |-> States, tape_symbols |-> TapeSymbols, blank |-> "_",
     initial_state |-> "q0", final_states |-> {"q2"},
     transitions |-> BitFlipRules]

\* sequences over S of length at most n
BoundedSeq(S, n) == UNION { [1..k -> S] : k \in 0..n }

\* input strings with symbols outside the declared alphabet
UnknownInputs == { <<"2">>, <<"0", "2">>, <<"2", "2", "3">> }

Inputs == BoundedSeq({"0", "1"}, MaxLen) \cup UnknownInputs

----------------------------------------------------------------------------
(* State *)

VARIABLES
    desc,           \* the constructor arguments kept by the object
    current_state,  \* self.current_state
    tape,           \* self.tape
    head_position,  \* self.head_position
    pc,             \* "idle": no call of run in progress; "loop": inside
                    \* the while loop of run; "done": run has returned
    input_string,   \* argument of the call of run
    start_state,    \* self.current_state as run reports it on entry
    step_count,     \* local of run
    accepted,       \* local of run, its return value
    step_ret        \* the return statement taken by the last call of step:
                    \* "none" when the last operation was not a step
                    \* "Continue" (line 96), "HaltFinal" (line 54),
                    \* "HaltNoRule" (line 67)

\* History of the head, kept for the properties: the indices, in the tape as
\* it is now, of the leftmost (lo) and the rightmost (hi) cell the head has
\* been on since the tape was last initialized.
VARIABLE visited

\* Two more objects constructed from the same arguments desc, for the
\* properties of instances running side by side.
VARIABLES
    inst,           \* per instance: the record of its current_state,
                    \* head_position and of the pc, input_string, step_count,
                    \* accepted of its call of run
    tapes           \* the tape lists of the instances

soloVars == <<current_state, tape, head_position, pc, input_string,
              start_state, step_count, accepted, step_ret, visited>>

pairVars == <<inst, tapes>>

vars == <<desc, current_state, tape, head_position, pc, input_string,
          start_state, step_count, accepted, step_ret, visited, inst, tapes>>

----------------------------------------------------------------------------
(* initialize_tape *)

\* lines 42-45 without line 44: no trailing blank
initialize_tape_no_blank(d, input) ==
    [tape |-> input, head_position |-> 0]

\* lines 42-45
initialize_tape(d, input) ==
    [tape |-> Append(input, d.blank), head_position |-> 0]

----------------------------------------------------------------------------
(* step *)

\* lines 57-61: the symbol under the head, blank when the head is off the tape
ReadSymbol(d, t, h) == IF h >= Len(t) THEN d.blank ELSE t[h + 1]

\* lines 73-76, with the cells right of the head dropped by the write
WriteSymbolTruncating(t, h, w) == Append(SubSeq(t, 1, h), w)

\* lines 73-76 without line 76: a cell on the tape is not overwritten
WriteSymbolSkipped(t, h, w) == IF h >= Len(t) THEN Append(t, w) ELSE t

\* lines 73-76: write at the head, appending when the head is off the tape
WriteSymbol(t, h, w) ==
    IF h >= Len(t) THEN Append(t, w) ELSE [t EXCEPT ![h + 1] = w]

\* lines 82-85 without the "L" branch
MoveHeadRightOnly(h, direction) == IF direction = "R" THEN h + 1 ELSE h

\* lines 82-85
MoveHead(h, direction) ==
    IF direction = "R" THEN h + 1
    ELSE IF direction = "L" THEN h - 1
    ELSE h

\* lines 88-90 without line 89: the head is clamped, no cell is inserted
ExtendLeftTapeNever(d, t, h) == t

\* lines 88-90: tape after the left extension
ExtendLeftTape(d, t, h) == IF h < 0 THEN <<d.blank>> \o t ELSE t

\* lines 88-90: head after the left extension
ExtendLeftHead(h) == IF h < 0 THEN 0 ELSE h

\* lines 93-94 left out: no cell is appended
ExtendRightTapeNever(d, t, h) == t

\* lines 93-94
ExtendRightTape(d, t, h) == IF h >= Len(t) THEN Append(t, d.blank) ELSE t

\* line 53: the test that stops the machine in a final state
IsFinalNever(d, q) == FALSE

IsFinal(d, q) == q \in d.final_states

\* the marker of a key that is not in the table
NoRule == <<>>

\* lines 64-70, with a default rule: an unknown symbol is looked up as blank
LookupRuleBlankDefault(d, q, current_symbol) ==
    IF <<q, current_symbol>> \in DOMAIN d.transitions
    THEN d.transitions[<<q, current_symbol>>]
    ELSE IF <<q, d.blank>> \in DOMAIN d.transitions
         THEN d.transitions[<<q, d.blank>>]
         ELSE NoRule

\* lines 64-70, with loop detection: a rule that keeps the state and the
\* symbol is taken as a halt
LookupRuleLoopDetecting(d, q, current_symbol) ==
    IF <<q, current_symbol>> \in DOMAIN d.transitions
    THEN LET rule == d.transitions[<<q, current_symbol>>]
         IN IF rule[1] = q /\ rule[2] = current_symbol
            THEN NoRule
            ELSE rule
    ELSE NoRule

\* lines 64-70: the rule of the key (state, symbol), NoRule when it has none
LookupRule(d, q, current_symbol) ==
    IF <<q, current_symbol>> \in DOMAIN d.transitions
    THEN d.transitions[<<q, current_symbol>>]
    ELSE NoRule

\* the whole of step: the return statement taken and the fields afterwards
step(d, q, t, h) ==
    IF IsFinal(d, q)
    THEN [ret |-> "HaltFinal", current_state |-> q, tape |-> t,
          head_position |-> h]
    ELSE
      LET current_symbol == ReadSymbol(d, t, h)
          rule == LookupRule(d, q, current_symbol)
      IN IF rule = NoRule
         THEN [ret |-> "HaltNoRule", current_state |-> q, tape |-> t,
               head_position |-> h]
         ELSE
           LET t1 == WriteSymbol(t, h, rule[2])
               h1 == MoveHead(h, rule[3])
               t2 == ExtendLeftTape(d, t1, h1)
               h2 == ExtendLeftHead(h1)
               t3 == ExtendRightTape(d, t2, h2)
           IN [ret |-> "Continue", current_state |-> rule[1], tape |-> t3,
               head_position |-> h2]

\* line 124, with every halt counted as an acceptance
IsAcceptedAlways(d, q) == q \in d.states

\* line 124
IsAccepted(d, q) == q \in d.final_states

----------------------------------------------------------------------------
(* History of the head *)

\* the call of step in this state inserts a cell at index 0 (lines 88-90)
InsertsLeft(d, q, t, h) ==
    LET rule == LookupRule(d, q, ReadSymbol(d, t, h))
    IN /\ ~IsFinal(d, q)
       /\ rule # NoRule
       /\ MoveHead(h, rule[3]) < 0

Min(a, b) == IF a <= b THEN a ELSE b

Max(a, b) == IF a >= b THEN a ELSE b

\* the visited range after a call of step with result r: the indices move
\* up by one when a cell was inserted at index 0, and the head's new cell
\* is added to the range
VisitedAfterStep(v, d, q, t, h, r) ==
    IF r.ret # "Continue"
    THEN v
    ELSE LET shift == IF InsertsLeft(d, q, t, h) THEN 1 ELSE 0
         IN [lo |-> Min(v.lo + shift, r.head_position),
             hi |-> Max(v.hi + shift, r.head_position)]

\* the visited range when the head is put at index 0 of a new tape
VisitedAtStart == [lo |-> 0, hi |-> 0]

----------------------------------------------------------------------------
(* Instances side by side *)

Instances == {1, 2}

\* line 32, with one list shared by every instance
TapeOfShared(m) == 1

\* line 32: each object's constructor makes its own list
TapeOf(m) == m

\* an instance as the constructor leaves it
Constructed(d) ==
    [current_state |-> d.initial_state, head_position |-> 0, pc |-> "idle",
     input_string |-> <<>>, step_count |-> 0, accepted |-> FALSE]

----------------------------------------------------------------------------
(* Initial state: the object as the constructor leaves it *)

Init ==
    /\ desc \in Descriptions
    /\ current_state = desc.initial_state
    /\ tape = <<>>
    /\ head_position = 0
    /\ pc = "idle"
    /\ input_string = <<>>
    /\ start_state = desc.initial_state
    /\ step_count = 0
    /\ accepted = FALSE
    /\ step_ret = "none"
    /\ visited = VisitedAtStart
    /\ inst = [m \in Instances |-> Constructed(desc)]
    /\ tapes = [m \in Instances |-> <<>>]

----------------------------------------------------------------------------
(* run *)

\* lines 106-113: entry of run up to the first evaluation of the loop test
RunCallWith(input) ==
    /\ pc \in {"idle", "done"}
    /\ LET r == initialize_tape(desc, input)
       IN /\ tape' = r.tape
          /\ head_position' = r.head_position
          /\ input_string' = input
    /\ start_state' = current_state
    /\ step_count' = 0
    /\ accepted' = FALSE
    /\ step_ret' = "none"
    /\ pc' = "loop"
    /\ visited' = VisitedAtStart
    /\ UNCHANGED <<desc, current_state>>
    /\ UNCHANGED pairVars

RunCall == \E input \in Inputs : RunCallWith(input)

\* lines 116-117, with the call of step that ends the loop counted too
CountAfterStepAlways(ret, n) == n + 1

\* lines 116-117: step_count after a call of step made by the loop
CountAfterStep(ret, n) == IF ret = "Continue" THEN n + 1 ELSE n

\* lines 116-121: step returned True, one more turn of the loop
RunContinue ==
    /\ pc = "loop"
    /\ step_count < MaxSteps
    /\ LET r == step(desc, current_state, tape, head_position)
       IN /\ r.ret = "Continue"
          /\ Len(r.tape) <= MaxTape
          /\ current_state' = r.current_state
          /\ tape' = r.tape
          /\ head_position' = r.head_position
          /\ step_ret' = r.ret
          /\ step_count' = CountAfterStep(r.ret, step_count)
          /\ visited' = VisitedAfterStep(visited, desc, current_state, tape,
                                         head_position, r)
    /\ UNCHANGED <<desc, pc, input_string, start_state, accepted>>
    /\ UNCHANGED pairVars

\* lines 116, 123-132: step returned False, run computes accepted and returns
RunHalt ==
    /\ pc = "loop"
    /\ LET r == step(desc, current_state, tape, head_position)
       IN /\ r.ret # "Continue"
          /\ current_state' = r.current_state
          /\ tape' = r.tape
          /\ head_position' = r.head_position
          /\ step_ret' = r.ret
          /\ step_count' = CountAfterStep(r.ret, step_count)
          /\ accepted' = IsAccepted(desc, r.current_state)
          /\ visited' = VisitedAfterStep(visited, desc, current_state, tape,
                                         head_position, r)
    /\ pc' = "done"
    /\ UNCHANGED <<desc, input_string, start_state>>
    /\ UNCHANGED pairVars

----------------------------------------------------------------------------
(* Calls of the other public methods while no run is in progress *)

\* the locals of a call of run that has returned
NoRun ==
    /\ pc' = "idle"
    /\ input_string' = <<>>
    /\ start_state' = desc.initial_state
    /\ step_count' = 0
    /\ accepted' = FALSE

StepCall ==
    /\ pc \in {"idle", "done"}
    /\ LET r == step(desc, current_state, tape, head_position)
       IN /\ Len(r.tape) <= MaxTape
          /\ current_state' = r.current_state
          /\ tape' = r.tape
          /\ head_position' = r.head_position
          /\ step_ret' = r.ret
          /\ visited' = VisitedAfterStep(visited, desc, current_state, tape,
                                         head_position, r)
    /\ NoRun
    /\ UNCHANGED desc
    /\ UNCHANGED pairVars

InitializeTapeWith(input) ==
    /\ pc \in {"idle", "done"}
    /\ LET r == initialize_tape(desc, input)
       IN /\ tape' = r.tape
          /\ head_position' = r.head_position
    /\ step_ret' = "none"
    /\ visited' = VisitedAtStart
    /\ NoRun
    /\ UNCHANGED <<desc, current_state>>
    /\ UNCHANGED pairVars

InitializeTapeCall == \E input \in Inputs : InitializeTapeWith(input)

----------------------------------------------------------------------------
(* Specifications *)

Next ==
    \/ RunCall
    \/ RunContinue
    \/ RunHalt
    \/ StepCall
    \/ InitializeTapeCall

Spec == Init /\ [][Next]_vars

\* the machine driven through run alone, as main drives it
RunNext ==
    \/ RunCall
    \/ RunContinue
    \/ RunHalt

RunSpec == Init /\ [][RunNext]_vars

----------------------------------------------------------------------------
(* Two instances built from the same arguments, each running run once, *)
(* their calls of step interleaved                                     *)

\* the call of step of instance m on its own fields
PairStep(m) ==
    step(desc, inst[m].current_state, tapes[TapeOf(m)],
         inst[m].head_position)

\* lines 106-113 on instance m
PairRunCallOf(m, input) ==
    /\ inst[m].pc = "idle"
    /\ LET r == initialize_tape(desc, input)
       IN /\ tapes' = [tapes EXCEPT ![TapeOf(m)] = r.tape]
          /\ inst' = [inst EXCEPT ![m] =
                        [@ EXCEPT !.head_position = r.head_position,
                                  !.input_string = input,
                                  !.step_count = 0,
                                  !.pc = "loop"]]
    /\ UNCHANGED desc
    /\ UNCHANGED soloVars

\* lines 116-121 on instance m
PairRunContinueOf(m) ==
    /\ inst[m].pc = "loop"
    /\ inst[m].step_count < MaxSteps
    /\ LET r == PairStep(m)
       IN /\ r.ret = "Continue"
          /\ Len(r.tape) <= MaxTape
          /\ tapes' = [tapes EXCEPT ![TapeOf(m)] = r.tape]
          /\ inst' = [inst EXCEPT ![m] =
                        [@ EXCEPT !.current_state = r.current_state,
                                  !.head_position = r.head_position,
                                  !.step_count =
                                     CountAfterStep(r.ret, @)]]
    /\ UNCHANGED desc
    /\ UNCHANGED soloVars

\* lines 116, 123-132 on instance m
PairRunHaltOf(m) ==
    /\ inst[m].pc = "loop"
    /\ LET r == PairStep(m)
       IN /\ r.ret # "Continue"
          /\ tapes' = [tapes EXCEPT ![TapeOf(m)] = r.tape]
          /\ inst' = [inst EXCEPT ![m] =
                        [@ EXCEPT !.current_state = r.current_state,
                                  !.head_position = r.head_position,
                                  !.step_count =
                                     CountAfterStep(r.ret, @),
                                  !.accepted =
                                     IsAccepted(desc, r.current_state),
                                  !.pc = "done"]]
    /\ UNCHANGED desc
    /\ UNCHANGED soloVars

PairRunCall == \E m \in Instances, input \in Inputs : PairRunCallOf(m, input)

PairRunContinue == \E m \in Instances : PairRunContinueOf(m)

PairRunHalt == \E m \in Instances : PairRunHaltOf(m)

PairNext ==
    \/ PairRunCall
    \/ PairRunContinue
    \/ PairRunHalt

PairSpec == Init /\ [][PairNext]_vars

\* run on an object of its own, from state q, tape t and head h with n
\* steps counted, followed for at most fuel more steps
RECURSIVE RunFrom(_, _, _, _, _, _)
RunFrom(d, q, t, h, n, fuel) ==
    LET r == step(d, q, t, h)
    IN IF r.ret # "Continue"
       THEN [halted |-> TRUE, current_state |-> r.current_state,
             tape |-> r.tape, head_position |-> r.head_position,
             step_count |-> n, accepted |-> IsAccepted(d, r.current_state)]
       ELSE IF fuel = 0
            THEN [halted |-> FALSE, current_state |-> r.current_state,
                  tape |-> r.tape, head_position |-> r.head_position,
                  step_count |-> n, accepted |-> FALSE]
            ELSE RunFrom(d, r.current_state, r.tape, r.head_position,
                         n + 1, fuel - 1)

\* run(input) on a freshly constructed object that runs alone
RunAlone(d, input) ==
    LET r == initialize_tape(d, input)
    IN RunFrom(d, d.initial_state, r.tape, r.head_position, 0, MaxSteps)

TypeOK ==
    /\ desc \in Descriptions
    /\ current_state \in States
    /\ tape \in Seq({"0", "1", "2", "3", "_"})
    /\ head_position \in Nat
    /\ pc \in {"idle", "loop", "done"}
    /\ input_string \in Inputs
    /\ start_state \in States
    /\ step_count \in 0..MaxSteps
    /\ accepted \in BOOLEAN
    /\ step_ret \in {"none", "Continue", "HaltFinal", "HaltNoRule"}
    /\ visited \in [lo : Nat, hi : Nat]
    /\ inst \in [Instances ->
                   [current_state : States, head_position : Nat,
                    pc : {"idle", "loop", "done"}, input_string : Inputs,
                    step_count : 0..MaxSteps, accepted : BOOLEAN]]
    /\ tapes \in [Instances -> Seq({"0", "1", "2", "3", "_"})]

----------------------------------------------------------------------------
(* Helpers of the properties *)

\* the transition just taken is a call of step (from run or from outside)
StepTaken == step_ret' # "none"

\* the symbol step reads in the current state
SymbolUnderHead == ReadSymbol(desc, tape, head_position)

\* the table has a rule for the current state and the symbol under the head
RuleExists == <<current_state, SymbolUnderHead>> \in DOMAIN desc.transitions

\* the tape without its blank cells
NonBlank(t) == SelectSeq(t, LAMBDA s : s # desc.blank)

\* run has not called step yet
BeforeFirstStep == pc = "loop" /\ step_ret = "none"

\* run has returned from a call entered in the initial state of the bit-flip
\* machine
BitFlipRunDone(input) ==
    /\ desc = BitFlip
    /\ pc = "done"
    /\ start_state = BitFlip.initial_state
    /\ input_string = input

----------------------------------------------------------------------------
(* C1 *)

\* C1: when run returns, accepted is true exactly when the state in which
\* step returned Halt is a final state; a halt on a missing rule gives
\* accepted = FALSE and a halt in a final state gives accepted = TRUE.
C1_AcceptedIffHaltStateFinal ==
    pc = "done" =>
        /\ step_ret \in {"HaltFinal", "HaltNoRule"}
        /\ accepted = (current_state \in desc.final_states)
        /\ step_ret = "HaltNoRule" => ~accepted
        /\ step_ret = "HaltFinal" => accepted

\* a run that applied rules and then halted on a missing rule, rejecting
C1_Witness ==
    /\ pc = "done"
    /\ step_ret = "HaltNoRule"
    /\ step_count > 0
    /\ ~accepted

----------------------------------------------------------------------------
(* C2 *)

\* C2: every call of run starts from a reset run state: before the first
\* step the current state is the initial state, the tape is the input
\* followed by one blank and the head is at index 0, whatever ran before.
C2_RunStartsFromInitialState ==
    BeforeFirstStep =>
        /\ current_state = desc.initial_state
        /\ tape = Append(input_string, desc.blank)
        /\ head_position = 0

----------------------------------------------------------------------------
(* C3 *)

\* C3: when the initial state is a final state, run halts on every input
\* with 0 steps counted and accepted = TRUE, the tape still being the input
\* followed by one blank and the head at index 0.
C3_InitialFinalHaltsAtOnce ==
    desc.initial_state \in desc.final_states =>
        /\ pc = "loop" =>
             /\ step_count = 0
             /\ step(desc, current_state, tape, head_position).ret
                  = "HaltFinal"
        /\ pc = "done" =>
             /\ step_count = 0
             /\ accepted
             /\ tape = Append(input_string, desc.blank)
             /\ head_position = 0

\* such a run has returned although the table has a rule for the initial
\* state and the first input symbol
C3_Witness ==
    /\ desc.initial_state \in desc.final_states
    /\ pc = "done"
    /\ accepted
    /\ Len(input_string) > 0
    /\ <<desc.initial_state, input_string[1]>> \in DOMAIN desc.transitions

----------------------------------------------------------------------------
(* C4 *)

\* C4 as stated: after any call of step, returning Continue or Halt, the
\* head index h satisfies 0 <= h <= length of the tape - 1.
C4_HeadInRangeAfterAnyStep ==
    step_ret # "none" =>
        /\ 0 <= head_position
        /\ head_position <= Len(tape) - 1

\* C4 amended: after any call of step the head index h satisfies
\* 0 <= h <= length - 1, except after a step that halts on the empty tape
\* the constructor leaves (no initialize_tape yet), where h = 0 = length.
C4_HeadInRangeUnlessHaltOnEmptyTape ==
    step_ret # "none" =>
        \/ /\ 0 <= head_position
           /\ head_position <= Len(tape) - 1
        \/ /\ step_ret \in {"HaltFinal", "HaltNoRule"}
           /\ tape = <<>>
           /\ head_position = 0

\* a step has just moved right off the last cell and a cell was appended
C4_Witness ==
    /\ step_ret = "Continue"
    /\ pc = "loop"
    /\ head_position = Len(tape) - 1
    /\ Len(tape) > Len(input_string) + 1

----------------------------------------------------------------------------
(* C5 *)

\* C5: no call of step makes the tape shorter.
C5_TapeNeverShrinksInStep ==
    [][StepTaken => Len(tape') >= Len(tape)]_vars

\* a run whose steps have grown the tape by two cells
C5_Witness ==
    /\ step_ret = "Continue"
    /\ pc = "loop"
    /\ Len(tape) >= Len(input_string) + 3

----------------------------------------------------------------------------
(* C6 *)

\* C6: a call of step in a final state returns Halt and leaves the current
\* state, the tape and the head unchanged, also when the table has a rule
\* for the current state and the symbol under the head.
C6_FinalStatesAbsorbing ==
    [][StepTaken /\ current_state \in desc.final_states =>
         /\ step_ret' = "HaltFinal"
         /\ UNCHANGED <<current_state, tape, head_position>>]_vars

\* step has just halted in a final state reached by a rule, with a rule
\* for that state and the symbol under the head in the table
C6_Witness ==
    /\ step_ret = "HaltFinal"
    /\ current_state \in desc.final_states
    /\ current_state # desc.initial_state
    /\ tape # <<>>
    /\ RuleExists

----------------------------------------------------------------------------
(* C7 *)

\* C7: a call of step in a non-final state for which the table has no rule
\* returns Halt, leaves the current state, the tape and the head unchanged,
\* and the state it leaves is not a final state.
C7_MissingRuleHalts ==
    [][StepTaken /\ current_state \notin desc.final_states /\ ~RuleExists =>
         /\ step_ret' = "HaltNoRule"
         /\ UNCHANGED <<current_state, tape, head_position>>
         /\ current_state' \notin desc.final_states]_vars

\* step has just halted on a missing rule, on a non-blank symbol, after
\* rules were applied
C7_Witness ==
    /\ step_ret = "HaltNoRule"
    /\ pc = "done"
    /\ step_count > 0
    /\ SymbolUnderHead # desc.blank
    /\ ~RuleExists
    /\ current_state \notin desc.final_states

----------------------------------------------------------------------------
(* C8 *)

\* C8: on the bit-flip machine entered in q0, run("101") halts with
\* accepted = TRUE, 8 steps counted and tape content 010 (the cells of the
\* tape being _ 0 1 0 _).
C8_BitFlip101 ==
    BitFlipRunDone(<<"1", "0", "1">>) =>
        /\ accepted
        /\ step_count = 8
        /\ NonBlank(tape) = <<"0", "1", "0">>
        /\ tape = <<"_", "0", "1", "0", "_">>
        /\ current_state = "q2"

C8_Witness ==
    /\ BitFlipRunDone(<<"1", "0", "1">>)
    /\ step_ret = "HaltFinal"
    /\ step_count = 8

----------------------------------------------------------------------------
(* C9 *)

\* C9: on the bit-flip machine entered in q0, run("223") returns
\* accepted = FALSE with 0 steps counted, halting on the missing rule of
\* (q0, 2); an input with symbols outside the declared alphabet is put on
\* the tape as it is and the run halts on a missing rule, rejecting.
C9_UnknownSymbolsRejected ==
    /\ BitFlipRunDone(<<"2", "2", "3">>) =>
         /\ ~accepted
         /\ step_count = 0
         /\ step_ret = "HaltNoRule"
         /\ current_state = "q0"
         /\ SymbolUnderHead = "2"
         /\ tape = <<"2", "2", "3", "_">>
    /\ \A input \in UnknownInputs :
         /\ BeforeFirstStep /\ input_string = input =>
              tape = Append(input, desc.blank)
         /\ BitFlipRunDone(input) =>
              /\ ~accepted
              /\ step_ret = "HaltNoRule"
              /\ SymbolUnderHead \notin desc.tape_symbols

C9_Witness ==
    /\ BitFlipRunDone(<<"2", "2", "3">>)
    /\ step_ret = "HaltNoRule"
    /\ step_count = 0
    /\ ~accepted

----------------------------------------------------------------------------
(* C10 *)

\* C10 as stated: on the bit-flip machine entered in q0, run("") halts
\* with accepted = TRUE and the final tape is the single cell _.
C10_EmptyInputFinalTapeOneBlank ==
    BitFlipRunDone(<<>>) =>
        /\ accepted
        /\ tape = <<"_">>

\* C10 amended: on the bit-flip machine entered in q0, run("") starts from
\* a tape of one blank cell, goes through q0, q1, q2 in 2 steps and halts
\* with accepted = TRUE; the final tape is two blank cells, __, the left
\* move from index 0 having put one blank in front, and the head is at
\* index 1.
C10_EmptyInputFinalTapeTwoBlanks ==
    desc = BitFlip /\ start_state = "q0" /\ input_string = <<>> =>
        /\ BeforeFirstStep =>
             /\ tape = <<"_">>
             /\ head_position = 0
             /\ current_state = "q0"
        /\ pc = "loop" /\ step_count = 1 =>
             /\ current_state = "q1"
             /\ tape = <<"_", "_">>
             /\ head_position = 0
        /\ pc = "loop" => step_count <= 2
        /\ pc \in {"loop", "done"} /\ step_count = 2 =>
             /\ current_state = "q2"
             /\ tape = <<"_", "_">>
             /\ head_position = 1
        /\ pc = "done" =>
             /\ accepted
             /\ step_count = 2

C10_Witness ==
    /\ BitFlipRunDone(<<>>)
    /\ accepted
    /\ step_count = 2
    /\ tape = <<"_", "_">>

----------------------------------------------------------------------------
(* C11 *)

\* C11: initialize_tape(input), called by run or from outside, replaces the
\* whole tape, whatever it held, by the input followed by exactly one blank
\* cell (length = length of the input + 1; one blank cell for the empty
\* input), puts the head at index 0 and leaves the current state unchanged.
C11_InitializeReplacesTape ==
    [][\A input \in Inputs :
         RunCallWith(input) \/ InitializeTapeWith(input) =>
           /\ Len(tape') = Len(input) + 1
           /\ SubSeq(tape', 1, Len(input)) = input
           /\ tape'[Len(input) + 1] = desc.blank
           /\ input = <<>> => tape' = <<desc.blank>>
           /\ head_position' = 0
           /\ current_state' = current_state]_vars

\* initialize_tape has just replaced the tape left by steps that had changed
\* the state and grown the tape
C11_Witness ==
    /\ step_ret = "none"
    /\ pc = "idle"
    /\ tape = <<desc.blank>>
    /\ head_position = 0
    /\ current_state # desc.initial_state

----------------------------------------------------------------------------
(* C12 *)

\* the rule step applies in the current state
AppliedRule == desc.transitions[<<current_state, SymbolUnderHead>>]

\* by how many cells a step applying the rule shifts the cells of the tape
LeftShift == IF AppliedRule[3] = "L" /\ head_position = 0 THEN 1 ELSE 0

\* C12: when step applies a rule (q, s) -> (q', w, d), the cell under the
\* head holds w right after the write and still holds w, at its possibly
\* shifted index, when the step returns.
C12_WriteThenRead ==
    [][StepTaken /\ step_ret' = "Continue" =>
         /\ ReadSymbol(desc, WriteSymbol(tape, head_position, AppliedRule[2]),
                       head_position) = AppliedRule[2]
         /\ ReadSymbol(desc, tape', head_position + LeftShift)
              = AppliedRule[2]]_vars

\* a step has just written a symbol differing from the one it read, and the
\* written cell was shifted by a left extension
C12_Witness ==
    /\ step_ret = "Continue"
    /\ head_position = 0
    /\ Len(tape) >= 3
    /\ tape[1] = desc.blank
    /\ tape[2] = "1"
    /\ desc.transitions = ZigZagRules

----------------------------------------------------------------------------
(* C13 *)

\* C13: the step counter is 0 when a run starts, grows by one with each
\* call of step of the run that returns Continue, and is not changed by the
\* call that returns Halt, on which run returns: when run halts the counter
\* is the number of rules applied.
C13_StepCountCountsContinues ==
    /\ [][pc' = "loop" /\ step_ret' = "none" => step_count' = 0]_vars
    /\ [][pc = "loop" /\ step_ret' = "Continue" =>
            pc' = "loop" /\ step_count' = step_count + 1]_vars
    /\ [][pc = "loop" /\ step_ret' \in {"HaltFinal", "HaltNoRule"} =>
            pc' = "done" /\ step_count' = step_count]_vars
    /\ [][pc = "done" /\ pc' = "loop" => step_count' = 0]_vars

\* a second run on the same machine has halted after counting rules
C13_Witness ==
    /\ pc = "done"
    /\ start_state # desc.initial_state
    /\ step_count >= 2

----------------------------------------------------------------------------
(* C15 *)

\* C15: a call of step in a non-final state q reading s at index p, with
\* (q, s) -> (q', w, d) in the table, returns Continue; afterwards the cell
\* that was at index p holds w, the current state is q', the head is on the
\* cell right of that cell when d is R and left of it when d is L, and
\* every other cell the tape had keeps its symbol and its place in the
\* order.
C15_RuleApplied ==
    [][StepTaken /\ current_state \notin desc.final_states /\ RuleExists =>
         LET p == head_position + LeftShift
         IN /\ step_ret' = "Continue"
            /\ current_state' = AppliedRule[1]
            /\ p < Len(tape')
            /\ tape'[p + 1] = AppliedRule[2]
            /\ AppliedRule[3] = "R" => head_position' = p + 1
            /\ AppliedRule[3] = "L" => head_position' = p - 1
            /\ head_position' \in 0..(Len(tape') - 1)
            /\ \A i \in 1..Len(tape) :
                 i # head_position + 1 => tape'[i + LeftShift] = tape[i]
      ]_vars

\* a step has just moved left inside the tape, leaving non-blank cells on
\* both sides of the head
C15_Witness ==
    /\ step_ret = "Continue"
    /\ pc = "loop"
    /\ head_position >= 1
    /\ head_position + 2 < Len(tape)
    /\ tape[head_position] # desc.blank
    /\ tape[head_position + 2] # desc.blank
    /\ current_state = "q1"
    /\ desc.transitions = BitFlipRules

----------------------------------------------------------------------------
(* C16 *)

\* the tape after the write of a step applying the rule, on a tape that has
\* the cell under the head
Written == [tape EXCEPT ![head_position + 1] = AppliedRule[2]]

\* the step moves the head left from index 0
LeavesLeft == AppliedRule[3] = "L" /\ head_position = 0

\* the step moves the head right from the last cell
LeavesRight == AppliedRule[3] = "R" /\ head_position = Len(tape) - 1

\* what a step does to the length of a tape
GrowsByAtMostOneCell ==
    /\ Len(tape') \in {Len(tape), Len(tape) + 1}
    /\ step_ret' # "Continue" => tape' = tape
    /\ step_ret' = "Continue" =>
         /\ LeavesLeft =>
              /\ tape' = <<desc.blank>> \o Written
              /\ head_position' = 0
         /\ LeavesRight => tape' = Append(Written, desc.blank)
         /\ ~LeavesLeft /\ ~LeavesRight => tape' = Written

\* C16 as stated: every step changes the length of the tape by 0 or by
\* exactly 1; it grows by 1 only when the move leaves the tape: a left move
\* from index 0 puts one blank in front, keeps the head at 0 and shifts the
\* cells up by one, a right move from the last cell appends one blank.
C16_StepGrowsByAtMostOne ==
    [][StepTaken => GrowsByAtMostOneCell]_vars

\* C16 amended: the same for every step on a tape that has at least one
\* cell (after initialize_tape, run or an applied rule); a step applying a
\* rule on the empty tape the constructor leaves grows it by 2 cells, the
\* written one and one blank, and a step halting there leaves it empty.
C16_StepGrowsByAtMostOneOnceTapeExists ==
    [][StepTaken =>
         /\ tape # <<>> => GrowsByAtMostOneCell
         /\ tape = <<>> /\ step_ret' = "Continue" =>
              /\ Len(tape') = 2
              /\ AppliedRule[3] = "R" =>
                   tape' = <<AppliedRule[2], desc.blank>>
              /\ AppliedRule[3] = "L" =>
                   tape' = <<desc.blank, AppliedRule[2]>>
         /\ tape = <<>> /\ step_ret' # "Continue" => tape' = <<>>
      ]_vars

\* a left move from index 0 has just put a blank in front of a written cell
C16_Witness ==
    /\ step_ret = "Continue"
    /\ pc = "loop"
    /\ head_position = 0
    /\ Len(tape) = Len(input_string) + 2
    /\ tape[1] = desc.blank
    /\ tape[2] # desc.blank
    /\ Len(input_string) > 0

----------------------------------------------------------------------------
(* C18 *)

\* a run on the empty input of the one-rule machine (q0, _) -> (q0, _, R),
\* q0 not final
LoopRun ==
    /\ desc.transitions = LoopRules
    /\ "q0" \notin desc.final_states
    /\ start_state = "q0"
    /\ input_string = <<>>
    /\ pc \in {"loop", "done"}

\* C18: run stops only when step returns Halt, it has no bound on the steps
\* and detects no loop: on the one-rule machine (q0, _) -> (q0, _, R) with
\* q0 not final and the empty input it never returns; after every number n
\* of steps the next call of step returns Continue and the tape has n + 1
\* blank cells, the head on the last one.
C18_LoopNeverHalts ==
    /\ pc = "done" => step_ret \in {"HaltFinal", "HaltNoRule"}
    /\ LoopRun =>
         /\ pc = "loop"
         /\ current_state = "q0"
         /\ step(desc, current_state, tape, head_position).ret = "Continue"
         /\ Len(tape) = step_count + 1
         /\ head_position = step_count
         /\ \A i \in 1..Len(tape) : tape[i] = desc.blank

\* the looping run has filled the tape of the model
C18_Witness ==
    /\ LoopRun
    /\ step_ret = "Continue"
    /\ Len(tape) = MaxTape
    /\ step_count = MaxTape - 1

----------------------------------------------------------------------------
(* C19 *)

\* C19: after a call of step that returned Halt, a further call of step
\* (no initialize_tape or run in between) returns the same Halt and leaves
\* the current state, the tape and the head unchanged; and a call of step
\* returns Continue exactly when the current state is not final and the
\* table has a rule for the current state and the symbol under the head.
C19_HaltIsStable ==
    /\ [][StepTaken /\ step_ret \in {"HaltFinal", "HaltNoRule"} =>
            /\ step_ret' = step_ret
            /\ UNCHANGED <<current_state, tape, head_position>>]_vars
    /\ [][StepTaken =>
            (step_ret' = "Continue" <=>
               current_state \notin desc.final_states /\ RuleExists)]_vars

\* step was called again, outside run, on a machine a run had left halted
\* on a missing rule
C19_Witness ==
    /\ pc = "idle"
    /\ step_ret = "HaltNoRule"
    /\ Len(tape) > 1
    /\ current_state # desc.initial_state
    /\ current_state \notin desc.final_states
    /\ ~RuleExists

----------------------------------------------------------------------------
(* C20 *)

\* the bitwise complement of a string over {0, 1}
Complement(w) == [i \in 1..Len(w) |-> IF w[i] = "0" THEN "1" ELSE "0"]

\* a run of the bit-flip machine entered in q0 on a string over {0, 1}
BitFlipRun ==
    /\ desc = BitFlip
    /\ start_state = BitFlip.initial_state
    /\ pc \in {"loop", "done"}
    /\ input_string \in BoundedSeq({"0", "1"}, MaxLen)

\* C20: on the bit-flip machine entered in q0 (as on a freshly constructed
\* one), run(w) for w over {0, 1} of length n terminates: step returns
\* Continue until 2n + 2 steps are counted and Halt then; run returns
\* accepted = TRUE with exactly 2n + 2 steps counted and the non-blank
\* content of the final tape is the bitwise complement of w.
C20_BitFlipComplements ==
    BitFlipRun =>
        LET n == Len(input_string)
        IN /\ step_count <= 2 * n + 2
           /\ pc = "loop" =>
                (step(desc, current_state, tape, head_position).ret
                   = "Continue" <=> step_count < 2 * n + 2)
           /\ pc = "done" =>
                /\ accepted
                /\ step_count = 2 * n + 2
                /\ NonBlank(tape) = Complement(input_string)
                /\ tape = <<"_">> \o Complement(input_string) \o <<"_">>

\* the first run of the machine has returned on an input of the longest
\* length with both symbols
C20_Witness ==
    /\ BitFlipRun
    /\ pc = "done"
    /\ Len(input_string) = MaxLen
    /\ input_string[1] # input_string[2]
    /\ step_count = 2 * MaxLen + 2
    /\ accepted

----------------------------------------------------------------------------
(* C17 *)

\* a call of run is in progress or has just returned
InRun == pc \in {"loop", "done"}

\* C17 as stated: in every state of a run there is a blank cell right of
\* the rightmost cell the head has visited and a blank cell left of the
\* leftmost cell the head has visited.
C17_SentinelBeyondEachBoundary ==
    InRun =>
        /\ visited.lo >= 1
        /\ tape[visited.lo] = desc.blank
        /\ visited.hi + 1 <= Len(tape) - 1
        /\ tape[visited.hi + 2] = desc.blank

\* the number of cells right of the rightmost visited cell
Unvisited == Len(tape) - 1 - visited.hi

\* C17 amended: in every state of a run the tape is the cells the head has
\* visited and, right of the rightmost visited cell, the input cells not
\* visited yet followed by the one blank initialize_tape appended. No cell
\* is kept left of the leftmost visited cell, and once the head has been on
\* the last cell no cell lies beyond it: a blank is added beyond a boundary
\* only by the step that moves the head onto it.
C17_BlankAddedWhenHeadArrives ==
    InRun =>
        /\ visited.lo = 0
        /\ visited.hi <= Len(tape) - 1
        /\ head_position \in visited.lo..visited.hi
        /\ Unvisited > 0 =>
             /\ tape[Len(tape)] = desc.blank
             /\ Unvisited - 1 <= Len(input_string)
             /\ SubSeq(tape, visited.hi + 2, Len(tape) - 1)
                  = SubSeq(input_string,
                           Len(input_string) - (Unvisited - 1) + 1,
                           Len(input_string))

\* a run whose head is on the blank a left move added in front, with
\* input cells and the appended blank not visited yet
C17_Witness ==
    /\ pc = "loop"
    /\ step_ret = "Continue"
    /\ head_position = 0
    /\ tape[1] = desc.blank
    /\ visited.hi = 1
    /\ Unvisited >= 2
    /\ Len(tape) = Len(input_string) + 2

----------------------------------------------------------------------------
(* C14 *)

\* instance m has returned from run with the outcome of a run alone
SameAsAlone(m) ==
    LET alone == RunAlone(desc, inst[m].input_string)
    IN /\ alone.halted
       /\ inst[m].accepted = alone.accepted
       /\ inst[m].step_count = alone.step_count
       /\ inst[m].current_state = alone.current_state
       /\ inst[m].head_position = alone.head_position
       /\ tapes[TapeOf(m)] = alone.tape

\* C14: two instances built from the same description, each with its own
\* run state, have their calls of step interleaved in any order: each one
\* halts with the accepted value, step count, final state and tape of a
\* run alone, and no step modifies the description.
C14_InterleavedInstancesIndependent ==
    /\ [](\A m \in Instances : inst[m].pc = "done" => SameAsAlone(m))
    /\ [][desc' = desc]_vars

\* both instances have run on different inputs, one has returned after
\* applying rules while the other is still in its loop
C14_Witness ==
    /\ inst[1].pc = "done"
    /\ inst[1].step_count >= 2
    /\ inst[2].pc = "loop"
    /\ inst[2].step_count >= 2
    /\ inst[1].input_string # inst[2].input_string
    /\ tapes[1] # tapes[2]

====
